---- MODULE Spec2Model ----
(***************************************************************************)
(* Model of the VLAN island detector (src/vlan_AI_assistant.py).           *)
(*                                                                         *)
(* Device ids are the numbers 1..MaxDeviceId; their numeric order stands   *)
(* for the lexicographic order of the id strings (1 = "sw-01", ...); 0 is  *)
(* an id that the JSON gives as a number.                                  *)
(* A Python dict with string keys (a device, a link, an attribute bag) is  *)
(* a function from key strings to values; a key that is absent from the    *)
(* dict is absent from the function's domain.                              *)
(***************************************************************************)
EXTENDS Integers, Sequences, FiniteSets, TLC

\* ---------------------------------------------------------------- bounds
MaxDeviceId == 4
MaxDevices == 2
MaxLinks == 2
MaxVlans == 2

DeviceIds == 1..MaxDeviceId
VlanIds == {10, 20}
DeviceTypes == {"switch"}
LinkTypes == {"fiber"}
LinkSpeeds == {"1G"}
VlanName == [v \in VlanIds |-> IF v = 10 THEN "Data" ELSE "Voice"]

\* ------------------------------------------------------- generic helpers
Range(s) == {s[i] : i \in 1..Len(s)}

SeqsUpTo(S, n) == UNION {[1..k -> S] : k \in 0..n}

\* the strictly ascending sequences of at most n numbers of S
AscSeqsUpTo(S, n) == {s \in SeqsUpTo(S, n) : \A i, j \in 1..Len(s) : i < j => s[i] < s[j]}

\* The orders in which a Python set with the elements S can be iterated.
RECURSIVE SetOrders(_)
SetOrders(S) == IF S = {} THEN {<< >>} ELSE UNION {{<<x>> \o s : s \in SetOrders(S \ {x})} : x \in S}

Min(S) == CHOOSE x \in S : \A y \in S : x <= y

EmptyBag == << >>

\* dict.get(key, default)
Get(d, k, default) == IF k \in DOMAIN d THEN d[k] ELSE default

\* a dict.update that keeps the value of a key it already holds
Update_keep_old(old, new) == [k \in (DOMAIN old) \cup (DOMAIN new) |-> IF k \in DOMAIN old THEN old[k] ELSE new[k]]

\* dict.update(new): the keys of new overwrite, the other keys stay
Update(old, new) == [k \in (DOMAIN old) \cup (DOMAIN new) |-> IF k \in DOMAIN new THEN new[k] ELSE old[k]]

\* An insertion-ordered Python dict: the keys in insertion order and the values.
EmptyDict == [keys |-> << >>, val |-> << >>]

DictSet(d, k, v) == [keys |-> IF k \in Range(d.keys) THEN d.keys ELSE Append(d.keys, k), val |-> (k :> v) @@ d.val]

\* defaultdict(list): d[k] is created empty on first use, d[k].append(x) for every x of list
DictExtend(d, k, list) == DictSet(d, k, Get(d.val, k, << >>) \o list)

\* ------------------------------------------------------- networkx.Graph
\* nodes: the nodes in insertion order; attrs: node -> attribute bag;
\* edges: unordered pair {u, v} ({u} for a self loop) -> attribute bag.
EmptyGraph == [nodes |-> << >>, attrs |-> << >>, edges |-> << >>]

NodeSet(G) == Range(G.nodes)

add_node(G, n, bag) == IF n \in NodeSet(G) THEN [G EXCEPT !.attrs[n] = Update(@, bag)] ELSE [G EXCEPT !.nodes = Append(@, n), !.attrs = (n :> bag) @@ @]

has_edge(G, u, v) == {u, v} \in DOMAIN G.edges

\* an add_edge that stores the edge without creating its endpoints
add_edge_no_nodes(G, u, v, bag) ==
  LET old == IF has_edge(G, u, v) THEN G.edges[{u, v}] ELSE EmptyBag
  IN  [G EXCEPT !.edges = ({u, v} :> Update(old, bag)) @@ @]

add_edge(G, u, v, bag) ==
  LET G1 == IF u \in NodeSet(G) THEN G ELSE add_node(G, u, EmptyBag)
      G2 == IF v \in NodeSet(G1) THEN G1 ELSE add_node(G1, v, EmptyBag)
      old == IF has_edge(G2, u, v) THEN G2.edges[{u, v}] ELSE EmptyBag
  IN  [G2 EXCEPT !.edges = ({u, v} :> Update(old, bag)) @@ @]

Neighbors(G, v) == {w \in NodeSet(G) : has_edge(G, v, w)}

\* a traversal that stops after the first level
plain_bfs_one_level(G, seen, thislevel) == seen \cup UNION {Neighbors(G, v) : v \in thislevel}

RECURSIVE plain_bfs(_, _, _)
plain_bfs(G, seen, thislevel) ==
  LET nextlevel == (UNION {Neighbors(G, v) : v \in thislevel}) \ seen
  IN  IF nextlevel = {} THEN seen ELSE plain_bfs(G, seen \cup nextlevel, nextlevel)

\* a component scan that never marks a component as seen
RECURSIVE components_from_unmarked(_, _, _)
components_from_unmarked(G, i, seen) ==
  IF i > Len(G.nodes) THEN << >>
  ELSE <<plain_bfs(G, {G.nodes[i]}, {G.nodes[i]})>> \o components_from_unmarked(G, i + 1, seen)

RECURSIVE components_from(_, _, _)
components_from(G, i, seen) ==
  IF i > Len(G.nodes) THEN << >>
  ELSE LET v == G.nodes[i]
       IN  IF v \in seen THEN components_from(G, i + 1, seen)
           ELSE LET c == plain_bfs(G, {v}, {v})
                IN  <<c>> \o components_from(G, i + 1, seen \cup c)

connected_components(G) == components_from(G, 1, {})

\* ------------------------------------------------------------ the input
\* The topology file: devices, links and VLAN records as the JSON gives them.
Device(d) == ("id" :> d)

TypedDevice(d, t) == ("id" :> d) @@ ("type" :> t)

Link(s, t) == ("source" :> s) @@ ("target" :> t)

Vlan(v, members) == ("id" :> v) @@ ("name" :> VlanName[v]) @@ ("devices" :> members)

Devices == {Device(d) : d \in DeviceIds} \cup {TypedDevice(d, t) : d \in DeviceIds, t \in DeviceTypes}

\* a link gives its type, its speed, both or neither
LinkAttrs == {EmptyBag} \cup {("type" :> t) : t \in LinkTypes} \cup {("speed" :> s) : s \in LinkSpeeds} \cup {("type" :> t) @@ ("speed" :> s) : t \in LinkTypes, s \in LinkSpeeds}

\* the links between devices 1 and 2, loops included
Links == {Link(s, t) @@ a : s \in {1, 2}, t \in {1, 2}, a \in LinkAttrs}

\* the k-th pair of devices, counted row by row
PairOf(k) == <<((k - 1) \div MaxDeviceId) + 1, ((k - 1) % MaxDeviceId) + 1>>

\* link lists that name each pair once, source before target
EdgeLists(pairs, n) == {[i \in 1..Len(q) |-> Link(PairOf(q[i])[1], PairOf(q[i])[2])] : q \in AscSeqsUpTo(pairs, n)}

\* the cabling of a ring: each device to the next one, and the first to the last
Cables == {k \in 1..(MaxDeviceId * MaxDeviceId) : PairOf(k)[1] + 1 = PairOf(k)[2] \/ PairOf(k) = <<1, MaxDeviceId>>}

AllDevices == [i \in 1..MaxDeviceId |-> Device(i)]

MemberLists == AscSeqsUpTo(DeviceIds, MaxDeviceId)

\* typed and repeated device declarations, at most one link, no VLAN
DeclarationTopologies == [devices : SeqsUpTo(Devices, MaxDevices), links : {<< >>, <<Link(1, 2)>>, <<Link(2, 1)>>, <<Link(1, 1)>>}, vlans : {<< >>}]

\* repeated links between devices 1 and 2, in both orientations, with and
\* without attributes, no VLAN
CablingTopologies == [devices : {<< >>, <<TypedDevice(1, "switch")>>}, links : SeqsUpTo(Links, MaxLinks), vlans : {<< >>}]

\* one VLAN with any members; no device, device 1 or every device declared,
\* any cables of the ring and the loop on device 1 (pair 1)
OneVlanTopologies == [devices : {<< >>, <<Device(1)>>, AllDevices}, links : EdgeLists(Cables \cup {1}, MaxLinks), vlans : {<<Vlan(10, m)>> : m \in MemberLists}]

\* several VLAN records (ids may repeat), each of device 1 and another device;
\* every device declared, no link, a loop or a cable
ManyVlanTopologies == [devices : {AllDevices}, links : {<< >>, <<Link(1, 1)>>, <<Link(1, 2)>>}, vlans : SeqsUpTo({Vlan(v, <<1, d>>) : v \in VlanIds, d \in DeviceIds \ {1}}, MaxVlans)]

\* a VLAN record that gives a description
DescribedVlan(v, members, text) == Vlan(v, members) @@ ("description" :> text)

\* a link entry without its target, without its source, without both
MalformedLinks == {("source" :> 1), ("target" :> 2), ("type" :> "fiber")}

\* a device id the JSON gives as a number, where the ids 1..MaxDeviceId are strings
NumberId == 0

\* str < str and int < int are defined, str < int raises TypeError
comparable(a, b) == (a = NumberId) <=> (b = NumberId)

\* VLAN 20 declared with and without a description, once or again; device 1
\* or every device declared
DescribedTopologies == [devices : {<<Device(1)>>, AllDevices}, links : {<< >>}, vlans : SeqsUpTo({Vlan(20, <<1, 2>>), DescribedVlan(20, <<1, 3>>, "Voice network"), DescribedVlan(20, <<2, 3>>, "")}, MaxVlans) \ {<< >>}]

\* link lists with an entry that lacks its source or its target
MalformedTopologies == [devices : {AllDevices}, links : {l \in SeqsUpTo({Link(1, 2)} \cup MalformedLinks, MaxLinks) : Range(l) \cap MalformedLinks # {}}, vlans : {<<Vlan(10, <<1, 2, 3>>)>>}]

\* a number and two strings as device ids, one VLAN of the three
MixedIdTopologies == [devices : {<<Device(NumberId), Device(1), Device(2)>>}, links : {<< >>, <<Link(NumberId, 1)>>, <<Link(1, 2)>>}, vlans : {<<Vlan(10, <<NumberId, 1, 2>>)>>}]

Topologies == DeclarationTopologies \cup CablingTopologies \cup OneVlanTopologies \cup ManyVlanTopologies \cup DescribedTopologies \cup MalformedTopologies \cup MixedIdTopologies

\* what json.load returns for a file that holds no list at all
EmptyTopology == [devices |-> << >>, links |-> << >>, vlans |-> << >>]

\* the file the constructor is given: absent, not JSON, or JSON
NetworkFiles == {"missing", "invalid_json", "valid"}

VARIABLES network_file, network_data, pc, error, physical_graph, vlan_graphs, vlan_info, islands, result, report

\* VLANChatbot: the environment it is constructed in, its conversation history,
\* the number of chat calls made, the messages of the last request to the
\* service, the value the last chat call returned (<< >> before the first) and
\* the log of all exchanges that succeeded.
VARIABLES environ, chat_pc, conversation_history, calls, sent, returned, exchanges

\* console_chat_interface: the position of the loop, what input() met last (a
\* line as a sequence of characters, or an interrupt or the end of the input),
\* the stripped line, the number of iterations, the chat calls of the last
\* iteration and what the last iteration printed.
VARIABLES console_pc, typed, user_input, turns, chatted, printed

chatbot_vars == <<environ, chat_pc, conversation_history, calls, sent, returned, exchanges>>

console_vars == <<console_pc, typed, user_input, turns, chatted, printed>>

vars == <<network_file, network_data, pc, error, physical_graph, vlan_graphs, vlan_info, islands, result, report, chatbot_vars, console_vars>>

\* network_data is what json.load returns for a file that is JSON.
\* pc is "new" before the constructor ran, "ready" when it returned a detector,
\* "failed" when it raised; error is the exception the last call raised, or "none".
\* result and report hold the value the last detect_islands and
\* generate_island_report call returned: << >> before the first call, <<value>> after.

\* ------------------------------------------------- VLANIslandDetector
\* a loader that takes a file that is not JSON for an empty topology
load_network_data_lenient(file, content) ==
  IF file = "missing" THEN [raised |-> "FileNotFoundError", data |-> EmptyTopology]
  ELSE IF file = "invalid_json" THEN [raised |-> "none", data |-> EmptyTopology]
  ELSE [raised |-> "none", data |-> content]

\* _load_network_data: the exception it raises, or the data it returns
load_network_data(file, content) ==
  IF file = "missing" THEN [raised |-> "FileNotFoundError", data |-> EmptyTopology]
  ELSE IF file = "invalid_json" THEN [raised |-> "ValueError", data |-> EmptyTopology]
  ELSE [raised |-> "none", data |-> content]

\* the subscripts device['id'], link['source'], link['target'], vlan['id'],
\* vlan['name'], vlan['devices'] raise KeyError on an entry without the key
build_raises(data) ==
  IF \/ \E i \in 1..Len(data.devices) : "id" \notin DOMAIN data.devices[i]
     \/ \E i \in 1..Len(data.links) : {"source", "target"} \ DOMAIN data.links[i] # {}
     \/ \E i \in 1..Len(data.vlans) : {"id", "name", "devices"} \ DOMAIN data.vlans[i] # {}
  THEN "KeyError" ELSE "none"

RECURSIVE add_devices(_, _, _)
add_devices(G, devices, i) ==
  IF i > Len(devices) THEN G
  ELSE add_devices(add_node(G, devices[i]["id"], devices[i]), devices, i + 1)

RECURSIVE add_links(_, _, _)
add_links(G, links, i) ==
  IF i > Len(links) THEN G
  ELSE LET link == links[i]
           attr == ("link_type" :> Get(link, "type", "ethernet")) @@ ("speed" :> Get(link, "speed", "unknown"))
       IN  add_links(add_edge(G, link["source"], link["target"], attr), links, i + 1)

build_physical_graph(data) == add_links(add_devices(EmptyGraph, data.devices, 1), data.links, 1)

\* a node loop without the membership test of line 78
RECURSIVE add_vlan_nodes_unchecked(_, _, _, _)
add_vlan_nodes_unchecked(G, phys, order, i) ==
  IF i > Len(order) THEN G
  ELSE add_vlan_nodes_unchecked(add_node(G, order[i], Get(phys.attrs, order[i], EmptyBag)), phys, order, i + 1)

RECURSIVE add_vlan_nodes(_, _, _, _)
add_vlan_nodes(G, phys, order, i) ==
  IF i > Len(order) THEN G
  ELSE LET device_id == order[i]
       IN  IF device_id \in NodeSet(phys)
           THEN add_vlan_nodes(add_node(G, device_id, phys.attrs[device_id]), phys, order, i + 1)
           ELSE add_vlan_nodes(G, phys, order, i + 1)

\* the pairs (device1, device2) of the nested loop, in loop order
LoopPairs(order) == [k \in 1..(Len(order) * Len(order)) |-> <<order[((k - 1) \div Len(order)) + 1], order[((k - 1) % Len(order)) + 1]>>]

\* an edge loop that names device1 twice in add_edge
RECURSIVE add_vlan_edges_same_device(_, _, _, _)
add_vlan_edges_same_device(G, phys, pairs, k) ==
  IF k > Len(pairs) THEN G
  ELSE LET device1 == pairs[k][1]
           device2 == pairs[k][2]
       IN  IF /\ device1 # device2
              /\ device1 \in NodeSet(phys)
              /\ device2 \in NodeSet(phys)
              /\ has_edge(phys, device1, device2)
           THEN add_vlan_edges_same_device(add_edge(G, device1, device1, phys.edges[{device1, device2}]), phys, pairs, k + 1)
           ELSE add_vlan_edges_same_device(G, phys, pairs, k + 1)

\* an edge loop that does not copy the edge attributes
RECURSIVE add_vlan_edges_no_attrs(_, _, _, _)
add_vlan_edges_no_attrs(G, phys, pairs, k) ==
  IF k > Len(pairs) THEN G
  ELSE LET device1 == pairs[k][1]
           device2 == pairs[k][2]
       IN  IF /\ device1 # device2
              /\ device1 \in NodeSet(phys)
              /\ device2 \in NodeSet(phys)
              /\ has_edge(phys, device1, device2)
           THEN add_vlan_edges_no_attrs(add_edge(G, device1, device2, EmptyBag), phys, pairs, k + 1)
           ELSE add_vlan_edges_no_attrs(G, phys, pairs, k + 1)

RECURSIVE add_vlan_edges(_, _, _, _)
add_vlan_edges(G, phys, pairs, k) ==
  IF k > Len(pairs) THEN G
  ELSE LET device1 == pairs[k][1]
           device2 == pairs[k][2]
       IN  IF /\ device1 # device2
              /\ device1 \in NodeSet(phys)
              /\ device2 \in NodeSet(phys)
              /\ has_edge(phys, device1, device2)
           THEN add_vlan_edges(add_edge(G, device1, device2, phys.edges[{device1, device2}]), phys, pairs, k + 1)
           ELSE add_vlan_edges(G, phys, pairs, k + 1)

\* the graph of one VLAN record; order is the iteration order of set(vlan['devices'])
build_vlan_graph(phys, order) == add_vlan_edges(add_vlan_nodes(EmptyGraph, phys, order, 1), phys, LoopPairs(order), 1)

\* metadata that reads the description under a key no record has
vlan_metadata_without_description(vlan) == [name |-> vlan["name"], description |-> Get(vlan, "desc", ""), devices |-> Range(vlan["devices"])]

vlan_metadata(vlan) == [name |-> vlan["name"], description |-> Get(vlan, "description", ""), devices |-> Range(vlan["devices"])]

RECURSIVE build_vlan_graphs(_, _, _, _, _)
build_vlan_graphs(graphs, phys, vlans, orders, i) ==
  IF i > Len(vlans) THEN graphs
  ELSE build_vlan_graphs(DictSet(graphs, vlans[i]["id"], build_vlan_graph(phys, orders[i])), phys, vlans, orders, i + 1)

RECURSIVE build_vlan_info(_, _, _)
build_vlan_info(info, vlans, i) ==
  IF i > Len(vlans) THEN info
  ELSE build_vlan_info(DictSet(info, vlans[i]["id"], vlan_metadata(vlans[i])), vlans, i + 1)

\* one iteration order for the member set of every VLAN record
RECURSIVE IterationOrders(_)
IterationOrders(vlans) ==
  IF vlans = << >> THEN {<< >>}
  ELSE {<<o>> \o rest : o \in SetOrders(Range(Head(vlans)["devices"])), rest \in IterationOrders(Tail(vlans))}

VLANIsland(vlan_id, vlan_name, island_id, devices) == [vlan_id |-> vlan_id, vlan_name |-> vlan_name, island_id |-> island_id, devices |-> devices]

\* the islands a dict of island lists holds
RECURSIVE island_count(_, _)
island_count(d, i) == IF i > Len(d.keys) THEN 0 ELSE Len(d.val[d.keys[i]]) + island_count(d, i + 1)

\* a detection that reports a VLAN of one component too (>= instead of >)
RECURSIVE detect_from_one_component(_, _, _, _)
detect_from_one_component(acc, graphs, info, i) ==
  IF i > Len(graphs.keys) THEN acc
  ELSE LET vlan_id == graphs.keys[i]
           vlan_graph == graphs.val[vlan_id]
           cc == connected_components(vlan_graph)
       IN  IF Len(vlan_graph.nodes) <= 1 THEN detect_from_one_component(acc, graphs, info, i + 1)
           ELSE IF Len(cc) >= 1
                THEN detect_from_one_component(DictExtend(acc, vlan_id, [k \in 1..Len(cc) |-> VLANIsland(vlan_id, info.val[vlan_id].name, k, cc[k])]), graphs, info, i + 1)
                ELSE detect_from_one_component(acc, graphs, info, i + 1)

\* a detection that numbers the islands across VLANs instead of per VLAN
RECURSIVE detect_from_running_id(_, _, _, _)
detect_from_running_id(acc, graphs, info, i) ==
  IF i > Len(graphs.keys) THEN acc
  ELSE LET vlan_id == graphs.keys[i]
           vlan_graph == graphs.val[vlan_id]
           cc == connected_components(vlan_graph)
       IN  IF Len(vlan_graph.nodes) <= 1 THEN detect_from_running_id(acc, graphs, info, i + 1)
           ELSE IF Len(cc) > 1
                THEN detect_from_running_id(DictExtend(acc, vlan_id, [k \in 1..Len(cc) |-> VLANIsland(vlan_id, info.val[vlan_id].name, island_count(acc, 1) + k, cc[k])]), graphs, info, i + 1)
                ELSE detect_from_running_id(acc, graphs, info, i + 1)

\* a detection that names every island after the first VLAN of the dict
RECURSIVE detect_from_first_name(_, _, _, _)
detect_from_first_name(acc, graphs, info, i) ==
  IF i > Len(graphs.keys) THEN acc
  ELSE LET vlan_id == graphs.keys[i]
           vlan_graph == graphs.val[vlan_id]
           cc == connected_components(vlan_graph)
       IN  IF Len(vlan_graph.nodes) <= 1 THEN detect_from_first_name(acc, graphs, info, i + 1)
           ELSE IF Len(cc) > 1
                THEN detect_from_first_name(DictExtend(acc, vlan_id, [k \in 1..Len(cc) |-> VLANIsland(vlan_id, info.val[graphs.keys[1]].name, k, cc[k])]), graphs, info, i + 1)
                ELSE detect_from_first_name(acc, graphs, info, i + 1)

RECURSIVE detect_from(_, _, _, _)
detect_from(acc, graphs, info, i) ==
  IF i > Len(graphs.keys) THEN acc
  ELSE LET vlan_id == graphs.keys[i]
           vlan_graph == graphs.val[vlan_id]
           cc == connected_components(vlan_graph)
       IN  IF Len(vlan_graph.nodes) <= 1 THEN detect_from(acc, graphs, info, i + 1)
           ELSE IF Len(cc) > 1
                THEN detect_from(DictExtend(acc, vlan_id, [k \in 1..Len(cc) |-> VLANIsland(vlan_id, info.val[vlan_id].name, k, cc[k])]), graphs, info, i + 1)
                ELSE detect_from(acc, graphs, info, i + 1)

\* a detection that keeps the islands of the call before
reset_islands_kept(old) == old

\* self.islands = defaultdict(list)
reset_islands(old) == EmptyDict

\* return dict(self.islands) copies the dict, not its lists: the result a caller
\* holds shares each island list with the collection it was copied from. The
\* lists that a later call carries over (carried) and appends to change in the
\* caller's hands; the lists of a collection that was replaced do not.
held_result(held, carried, new) ==
  IF held = << >> THEN held
  ELSE <<[keys |-> held[1].keys, val |-> [k \in DOMAIN held[1].val |-> IF k \in Range(carried.keys) THEN new.val[k] ELSE held[1].val[k]]]>>

detect_islands(old, graphs, info) == detect_from(reset_islands(old), graphs, info, 1)

\* sorted(list(devices))
RECURSIVE sorted(_)
sorted(S) == IF S = {} THEN << >> ELSE <<Min(S)>> \o sorted(S \ {Min(S)})

island_entry(island) == [island_id |-> island.island_id, devices |-> sorted(island.devices)]

\* an entry that counts the devices of the islands instead of the islands
vlan_report_counting_devices(vlan_id, isl, info) == [vlan_id |-> vlan_id, vlan_name |-> info.val[vlan_id].name, number_of_islands |-> Cardinality(UNION {isl[k].devices : k \in 1..Len(isl)}), islands |-> [k \in 1..Len(isl) |-> island_entry(isl[k])]]

vlan_report(vlan_id, isl, info) == [vlan_id |-> vlan_id, vlan_name |-> info.val[vlan_id].name, number_of_islands |-> Len(isl), islands |-> [k \in 1..Len(isl) |-> island_entry(isl[k])]]

\* list.sort(key=vlan_id): a stable insertion sort
RECURSIVE insert_by_vlan_id(_, _)
insert_by_vlan_id(list, e) ==
  IF list = << >> THEN <<e>>
  ELSE IF e.vlan_id < Head(list).vlan_id THEN <<e>> \o list
       ELSE <<Head(list)>> \o insert_by_vlan_id(Tail(list), e)

\* a report that keeps the order of the islands dict
sort_by_vlan_id_unsorted(list) == list

RECURSIVE sort_by_vlan_id(_)
sort_by_vlan_id(list) == IF list = << >> THEN << >> ELSE insert_by_vlan_id(sort_by_vlan_id(SubSeq(list, 1, Len(list) - 1)), list[Len(list)])

generate_island_report(islands_data, info) == [vlans_with_islands |-> sort_by_vlan_id([k \in 1..Len(islands_data.keys) |-> vlan_report(islands_data.keys[k], islands_data.val[islands_data.keys[k]], info)])]

\* sorted(list(island.devices)) raises TypeError when it compares a str with an int
report_raises(islands_data) ==
  IF \E k \in 1..Len(islands_data.keys) : \E j \in 1..Len(islands_data.val[islands_data.keys[k]]) :
       \E a, b \in islands_data.val[islands_data.keys[k]][j].devices : ~comparable(a, b)
  THEN "TypeError" ELSE "none"

\* no chatbot was constructed
NoChatbot ==
  /\ environ = << >>
  /\ chat_pc = "new"
  /\ conversation_history = << >>
  /\ calls = 0
  /\ sent = << >>
  /\ returned = << >>
  /\ exchanges = << >>

\* the console loop was not entered
NoConsole ==
  /\ console_pc = "off"
  /\ typed = << >>
  /\ user_input = << >>
  /\ turns = 0
  /\ chatted = 0
  /\ printed = "none"

Init ==
  /\ NoChatbot
  /\ NoConsole
  /\ \/ network_file = "valid" /\ network_data \in Topologies
     \/ network_file \in NetworkFiles \ {"valid"} /\ network_data = EmptyTopology
  /\ pc = "new"
  /\ error = "none"
  /\ physical_graph = EmptyGraph
  /\ vlan_graphs = EmptyDict
  /\ vlan_info = EmptyDict
  /\ islands = EmptyDict
  /\ result = << >>
  /\ report = << >>

\* VLANIslandDetector.__init__: an exception leaves the caller without a detector
Construct ==
  /\ pc = "new"
  /\ LET loaded == load_network_data(network_file, network_data)
         raised == IF loaded.raised # "none" THEN loaded.raised ELSE build_raises(loaded.data)
     IN  IF raised # "none"
         THEN /\ pc' = "failed"
              /\ error' = raised
              /\ UNCHANGED <<physical_graph, vlan_graphs, vlan_info>>
         ELSE /\ pc' = "ready"
              /\ error' = "none"
              /\ \E orders \in IterationOrders(loaded.data.vlans) :
                   LET phys == build_physical_graph(loaded.data)
                   IN  /\ physical_graph' = phys
                       /\ vlan_graphs' = build_vlan_graphs(EmptyDict, phys, loaded.data.vlans, orders, 1)
                       /\ vlan_info' = build_vlan_info(EmptyDict, loaded.data.vlans, 1)
  /\ islands' = EmptyDict
  /\ UNCHANGED <<network_file, network_data, result, report, chatbot_vars, console_vars>>

\* a detection that deletes the VLAN graphs it skips (at most one node)
DetectIslands_deleting_skipped ==
  /\ pc = "ready"
  /\ islands' = detect_islands(islands, vlan_graphs, vlan_info)
  /\ result' = <<islands'>>
  /\ error' = "none"
  /\ vlan_graphs' = [keys |-> SelectSeq(vlan_graphs.keys, LAMBDA v : Len(vlan_graphs.val[v].nodes) > 1), val |-> vlan_graphs.val]
  /\ UNCHANGED <<network_file, network_data, pc, physical_graph, vlan_info, report, chatbot_vars, console_vars>>

\* VLANIslandDetector.detect_islands
DetectIslands ==
  /\ pc = "ready"
  /\ islands' = detect_islands(islands, vlan_graphs, vlan_info)
  /\ result' = <<islands'>>
  /\ error' = "none"
  /\ UNCHANGED <<network_file, network_data, pc, physical_graph, vlan_graphs, vlan_info, report, chatbot_vars, console_vars>>

\* VLANIslandDetector.generate_island_report
GenerateIslandReport ==
  /\ pc = "ready"
  /\ islands' = detect_islands(islands, vlan_graphs, vlan_info)
  /\ result' = held_result(result, reset_islands(islands), islands')
  /\ error' = report_raises(islands')
  /\ report' = IF error' = "none" THEN <<generate_island_report(islands', vlan_info)>> ELSE report
  /\ UNCHANGED <<network_file, network_data, pc, physical_graph, vlan_graphs, vlan_info, chatbot_vars, console_vars>>

Next == Construct \/ DetectIslands \/ GenerateIslandReport

Spec == Init /\ [][Next]_vars

\* nx.Graph.remove_edge
remove_edge(G, u, v) == [G EXCEPT !.edges = [e \in (DOMAIN G.edges) \ {{u, v}} |-> G.edges[e]]]

\* The topology changes after construction: the holder of the detector adds a
\* cable to detector.physical_graph (a device too, when an end is new), once.
AddPhysicalEdge ==
  /\ pc = "ready"
  /\ physical_graph = build_physical_graph(network_data)
  /\ \E u, v \in DeviceIds :
       /\ u < v
       /\ ~has_edge(physical_graph, u, v)
       /\ physical_graph' = add_edge(physical_graph, u, v, EmptyBag)
  /\ UNCHANGED <<network_file, network_data, pc, error, vlan_graphs, vlan_info, islands, result, report, chatbot_vars, console_vars>>

\* ... or removes a cable from it, once.
RemovePhysicalEdge ==
  /\ pc = "ready"
  /\ physical_graph = build_physical_graph(network_data)
  /\ \E u, v \in DeviceIds :
       /\ u < v
       /\ has_edge(physical_graph, u, v)
       /\ physical_graph' = remove_edge(physical_graph, u, v)
  /\ UNCHANGED <<network_file, network_data, pc, error, vlan_graphs, vlan_info, islands, result, report, chatbot_vars, console_vars>>

NextTopologyChange == Construct \/ DetectIslands \/ GenerateIslandReport \/ AddPhysicalEdge \/ RemovePhysicalEdge

SpecTopologyChange == Init /\ [][NextTopologyChange]_vars

\* --------------------------------------------------------- VLANChatbot
MaxCalls == 13

\* len(self.conversation_history) > 20, self.conversation_history[-20:]
HistoryLimit == 20

EnvNames == {"GENAIPLATFORM_FARM_SUBSCRIPTION_KEY", "AZURE_OPENAI_BASE_URL", "AZURE_OPENAI_API_VERSION", "AZURE_OPENAI_MODEL"}

EnvStrings == {"", "None", "test"}

\* os.environ: a variable that is not set is no key of the dict
Environments == UNION {[S -> EnvStrings] : S \in SUBSET EnvNames}

\* str(os.getenv(name)): os.getenv gives None for a variable that is not set
str_getenv(env, name) == IF name \in DOMAIN env THEN env[name] ELSE "None"

\* a constructor that tests the subscription key only
chatbot_raises_key_only(env) ==
  IF str_getenv(env, "GENAIPLATFORM_FARM_SUBSCRIPTION_KEY") \in {"", "None"} THEN "ValueError" ELSE "none"

\* VLANChatbot.__init__: the four tests of the environment
chatbot_raises(env) ==
  IF str_getenv(env, "GENAIPLATFORM_FARM_SUBSCRIPTION_KEY") \in {"", "None"} THEN "ValueError"
  ELSE IF str_getenv(env, "AZURE_OPENAI_BASE_URL") \in {"", "None"} THEN "ValueError"
  ELSE IF str_getenv(env, "AZURE_OPENAI_API_VERSION") \in {"", "None"} THEN "ValueError"
  ELSE IF str_getenv(env, "AZURE_OPENAI_MODEL") \in {"", "None"} THEN "ValueError"
  ELSE "none"

Message(role, content) == [role |-> role, content |-> content]

RECURSIVE total_islands(_, _)
total_islands(entries, i) == IF i > Len(entries) THEN 0 ELSE entries[i].number_of_islands + total_islands(entries, i + 1)

\* _build_network_context: the summary lines of the context text
build_network_context(rep) == "VLANs with Islands: " \o ToString(Len(rep.vlans_with_islands)) \o ", Total Islands Detected: " \o ToString(total_islands(rep.vlans_with_islands, 1))

\* _build_system_prompt
build_system_prompt(network_context) == "You are an expert network engineer. " \o network_context

\* the messages argument of client.chat.completions.create
request_messages(system_prompt, history, user_message) == <<Message("system", system_prompt)>> \o history \o <<Message("user", user_message)>>

\* what the service does with the n-th request: it answers or it raises
ServiceOutcomes(n) == {[raised |-> FALSE, text |-> "AI response " \o ToString(n)], [raised |-> TRUE, text |-> "API Error"]}

\* a chat that never trims
trim_never(history) == history

\* a trim that keeps the first messages, history[:20]
trim_oldest_kept(history) == IF Len(history) > HistoryLimit THEN SubSeq(history, 1, HistoryLimit) ELSE history

\* if len(history) > 20: history = history[-20:]
trim(history) == IF Len(history) > HistoryLimit THEN SubSeq(history, Len(history) - HistoryLimit + 1, Len(history)) ELSE history

\* a chat that records the user message before it calls the service
chat_history_user_first(history, user_message, outcome) ==
  IF outcome.raised THEN Append(history, Message("user", user_message))
  ELSE trim(Append(Append(history, Message("user", user_message)), Message("assistant", outcome.text)))

\* a chat that records the reply before the user message
chat_history_reply_first(history, user_message, outcome) ==
  IF outcome.raised THEN history
  ELSE trim(Append(Append(history, Message("assistant", outcome.text)), Message("user", user_message)))

\* the conversation history after chat: both appends follow the service call
\* inside the try, so an exception leaves the history as it was
chat_history(history, user_message, outcome) ==
  IF outcome.raised THEN history
  ELSE trim(Append(Append(history, Message("user", user_message)), Message("assistant", outcome.text)))

\* the value chat returns
chat_return(outcome) ==
  IF outcome.raised THEN "I apologize, but I encountered an error: " \o outcome.text \o ". Please try rephrasing your question."
  ELSE outcome.text

\* two devices apart in one VLAN; a number and a string cabled in one island
ChatTopologies == {[devices |-> <<Device(1), Device(2)>>, links |-> << >>, vlans |-> <<Vlan(10, <<1, 2>>)>>], [devices |-> <<Device(NumberId), Device(1), Device(2)>>, links |-> <<Link(NumberId, 1)>>, vlans |-> <<Vlan(10, <<NumberId, 1, 2>>)>>]}

InitChat ==
  /\ network_file = "valid"
  /\ network_data \in ChatTopologies
  /\ pc = "new"
  /\ error = "none"
  /\ physical_graph = EmptyGraph
  /\ vlan_graphs = EmptyDict
  /\ vlan_info = EmptyDict
  /\ islands = EmptyDict
  /\ result = << >>
  /\ report = << >>
  /\ environ \in Environments
  /\ chat_pc = "new"
  /\ conversation_history = << >>
  /\ calls = 0
  /\ sent = << >>
  /\ returned = << >>
  /\ exchanges = << >>
  /\ NoConsole

\* VLANChatbot.__init__, given the detector
ConstructChatbot ==
  /\ pc = "ready"
  /\ chat_pc = "new"
  /\ error' = chatbot_raises(environ)
  /\ chat_pc' = IF error' = "none" THEN "ready" ELSE "failed"
  /\ conversation_history' = << >>
  /\ UNCHANGED <<network_file, network_data, pc, physical_graph, vlan_graphs, vlan_info, islands, result, report>>
  /\ UNCHANGED <<environ, calls, sent, returned, exchanges, console_vars>>

\* VLANChatbot.chat(user_message), from whoever calls it.
\* _build_network_context runs generate_island_report before the try: an error
\* of the report leaves chat as it is; an error of the service is caught.
ChatCall(user_message) ==
  /\ calls' = calls + 1
  /\ islands' = detect_islands(islands, vlan_graphs, vlan_info)
  /\ result' = held_result(result, reset_islands(islands), islands')
  /\ error' = report_raises(islands')
  /\ IF error' # "none"
     THEN UNCHANGED <<conversation_history, sent, returned, exchanges>>
     ELSE \E outcome \in ServiceOutcomes(calls) :
            LET system_prompt == build_system_prompt(build_network_context(generate_island_report(islands', vlan_info)))
            IN  /\ sent' = request_messages(system_prompt, conversation_history, user_message)
                /\ conversation_history' = chat_history(conversation_history, user_message, outcome)
                /\ returned' = <<chat_return(outcome)>>
                /\ exchanges' = IF outcome.raised THEN exchanges ELSE exchanges \o <<Message("user", user_message), Message("assistant", outcome.text)>>
  /\ UNCHANGED <<network_file, network_data, pc, physical_graph, vlan_graphs, vlan_info, report, environ, chat_pc>>

\* chat called with the messages "Message 0", "Message 1", ...
Chat ==
  /\ pc = "ready"
  /\ chat_pc = "ready"
  /\ calls < MaxCalls
  /\ ChatCall("Message " \o ToString(calls))
  /\ UNCHANGED console_vars

NextChat == Construct \/ ConstructChatbot \/ Chat

SpecChat == InitChat /\ [][NextChat]_vars

\* ------------------------------------------------ console_chat_interface
MaxTurns == 3

Upper == <<"A", "B", "C", "D", "E", "F", "G", "H", "I", "J", "K", "L", "M", "N", "O", "P", "Q", "R", "S", "T", "U", "V", "W", "X", "Y", "Z">>

Lower == <<"a", "b", "c", "d", "e", "f", "g", "h", "i", "j", "k", "l", "m", "n", "o", "p", "q", "r", "s", "t", "u", "v", "w", "x", "y", "z">>

Blanks == {" ", "\t"}

\* str.lower, character by character
lower(line) == [i \in 1..Len(line) |-> IF \E k \in 1..Len(Upper) : Upper[k] = line[i] THEN Lower[CHOOSE k \in 1..Len(Upper) : Upper[k] = line[i]] ELSE line[i]]

RECURSIVE lstrip(_)
lstrip(line) == IF line # << >> /\ Head(line) \in Blanks THEN lstrip(Tail(line)) ELSE line

RECURSIVE rstrip(_)
rstrip(line) == IF line # << >> /\ line[Len(line)] \in Blanks THEN rstrip(SubSeq(line, 1, Len(line) - 1)) ELSE line

\* str.strip
strip(line) == rstrip(lstrip(line))

\* the lines a user types
Lines == {<<"e", "x", "i", "t">>, <<" ", "E", "x", "i", "t", " ">>, <<"Q", "U", "I", "T">>, <<"b", "y", "e", "\t">>, <<"h", "e", "l", "p">>, <<" ", "H", "E", "L", "P">>, <<"c", "l", "e", "a", "r">>, <<"R", "e", "p", "o", "r", "t">>, << >>, <<" ", " ">>, <<"h", "i">>, <<"e", "x", "i", "t", " ", "?">>, <<"B", "y">>}

\* what input() raises instead of returning a line
KeyboardInterrupt == <<"KeyboardInterrupt">>

EOFError == <<"EOFError">>

\* a loop that compares the line as typed with the commands
console_command_case_sensitive(input) ==
  IF input \in {<<"e", "x", "i", "t">>, <<"q", "u", "i", "t">>, <<"b", "y", "e">>} THEN "exit"
  ELSE IF input = <<"h", "e", "l", "p">> THEN "help"
  ELSE IF input = <<"c", "l", "e", "a", "r">> THEN "clear"
  ELSE IF input = <<"r", "e", "p", "o", "r", "t">> THEN "report"
  ELSE IF input = << >> THEN "empty"
  ELSE "chat"

\* the branch of the if/elif chain that takes the stripped line
console_command(input) ==
  IF lower(input) \in {<<"e", "x", "i", "t">>, <<"q", "u", "i", "t">>, <<"b", "y", "e">>} THEN "exit"
  ELSE IF lower(input) = <<"h", "e", "l", "p">> THEN "help"
  ELSE IF lower(input) = <<"c", "l", "e", "a", "r">> THEN "clear"
  ELSE IF lower(input) = <<"r", "e", "p", "o", "r", "t">> THEN "report"
  ELSE IF input = << >> THEN "empty"
  ELSE "chat"

\* the program starts with the four variables set or with none
InitConsole ==
  /\ network_file = "valid"
  /\ network_data \in ChatTopologies
  /\ pc = "new"
  /\ error = "none"
  /\ physical_graph = EmptyGraph
  /\ vlan_graphs = EmptyDict
  /\ vlan_info = EmptyDict
  /\ islands = EmptyDict
  /\ result = << >>
  /\ report = << >>
  /\ environ \in {[name \in EnvNames |-> "test"], << >>}
  /\ chat_pc = "new"
  /\ conversation_history = << >>
  /\ calls = 0
  /\ sent = << >>
  /\ returned = << >>
  /\ exchanges = << >>
  /\ NoConsole

\* the welcome text; the loop starts once detector and chatbot are constructed
EnterLoop ==
  /\ pc = "ready"
  /\ chat_pc = "ready"
  /\ console_pc = "off"
  /\ console_pc' = "prompt"
  /\ UNCHANGED <<network_file, network_data, pc, error, physical_graph, vlan_graphs, vlan_info, islands, result, report, chatbot_vars>>
  /\ UNCHANGED <<typed, user_input, turns, chatted, printed>>

\* one iteration of the loop on a line that input() returned
ReadLine ==
  /\ console_pc = "prompt"
  /\ turns < MaxTurns
  /\ turns' = turns + 1
  /\ \E line \in Lines :
       LET command == console_command(strip(line))
       IN  /\ typed' = line
           /\ user_input' = strip(line)
           /\ console_pc' = IF command = "exit" THEN "ended" ELSE "prompt"
           /\ chatted' = IF command = "chat" THEN 1 ELSE 0
           /\ IF command = "chat"
              THEN /\ ChatCall(strip(line))
                   /\ printed' = IF error' # "none" THEN "error" ELSE "response"
              ELSE IF command = "report"
              THEN /\ islands' = detect_islands(islands, vlan_graphs, vlan_info)
                   /\ result' = held_result(result, reset_islands(islands), islands')
                   /\ error' = report_raises(islands')
                   /\ report' = IF error' = "none" THEN <<generate_island_report(islands', vlan_info)>> ELSE report
                   /\ printed' = IF error' # "none" THEN "error" ELSE "summary"
                   /\ UNCHANGED <<network_file, network_data, pc, physical_graph, vlan_graphs, vlan_info, chatbot_vars>>
              ELSE /\ error' = "none"
                   /\ printed' = (IF command = "exit" THEN "goodbye" ELSE IF command = "help" THEN "help menu" ELSE IF command = "clear" THEN "cleared screen" ELSE "hint")
                   /\ UNCHANGED <<network_file, network_data, pc, physical_graph, vlan_graphs, vlan_info, islands, result, report, chatbot_vars>>

\* input() raises KeyboardInterrupt: the loop says goodbye and ends
Interrupt ==
  /\ console_pc = "prompt"
  /\ turns < MaxTurns
  /\ turns' = turns + 1
  /\ typed' = KeyboardInterrupt
  /\ error' = "KeyboardInterrupt"
  /\ console_pc' = "ended"
  /\ printed' = "interrupted"
  /\ chatted' = 0
  /\ UNCHANGED <<network_file, network_data, pc, physical_graph, vlan_graphs, vlan_info, islands, result, report, chatbot_vars, user_input>>

\* input() raises EOFError: except Exception prints it and the loop goes on
EndOfInput ==
  /\ console_pc = "prompt"
  /\ turns < MaxTurns
  /\ turns' = turns + 1
  /\ typed' = EOFError
  /\ error' = "EOFError"
  /\ console_pc' = "prompt"
  /\ printed' = "error"
  /\ chatted' = 0
  /\ UNCHANGED <<network_file, network_data, pc, physical_graph, vlan_graphs, vlan_info, islands, result, report, chatbot_vars, user_input>>

NextConsole == Construct \/ ConstructChatbot \/ EnterLoop \/ ReadLine \/ Interrupt \/ EndOfInput

SpecConsole == InitConsole /\ [][NextConsole]_vars

\* ------------------------------------------------ what the claims speak of
Constructed == pc = "ready"

Returned == result # << >>

\* the value of the last detect_islands call
Reported == IF Returned THEN result[1] ELSE EmptyDict

ReportedVlans == Range(Reported.keys)

IslandsOf(v) == Reported.val[v]

IslandSets(v) == {IslandsOf(v)[k].devices : k \in 1..Len(IslandsOf(v))}

BuiltVlans == Range(vlan_graphs.keys)

VlanGraphOf(v) == vlan_graphs.val[v]

DeclaredVlans == {network_data.vlans[i]["id"] : i \in 1..Len(network_data.vlans)}

\* the record that stands for VLAN v: the last one of the list with that id
LastRecord(v) == network_data.vlans[CHOOSE i \in 1..Len(network_data.vlans) : network_data.vlans[i]["id"] = v /\ \A j \in (i + 1)..Len(network_data.vlans) : network_data.vlans[j]["id"] # v]

DeclaredMembers(v) == Range(LastRecord(v)["devices"])

DeclaredDevices == {network_data.devices[i]["id"] : i \in 1..Len(network_data.devices)}

LinkEndpoints == UNION {{network_data.links[i]["source"], network_data.links[i]["target"]} : i \in 1..Len(network_data.links)}

Admitted(v) == DeclaredMembers(v) \cap NodeSet(physical_graph)

\* the devices joined to a device of S by a path of edges of E
RECURSIVE Joined(_, _)
Joined(E, S) ==
  LET T == S \cup {w \in UNION E : \E v \in S : {v, w} \in E}
  IN  IF T = S THEN S ELSE Joined(E, T)

Components(G) == {Joined(DOMAIN G.edges, {n}) : n \in NodeSet(G)}

\* C1: the islands of every reported VLAN are pairwise disjoint and their
\* union is the VLAN's admitted member set (declared members that are nodes of
\* the physical graph).
C1_IslandsPartitionAdmitted ==
  Returned => \A v \in ReportedVlans :
    /\ UNION IslandSets(v) = Admitted(v)
    /\ \A i, j \in 1..Len(IslandsOf(v)) : i # j => IslandsOf(v)[i].devices \cap IslandsOf(v)[j].devices = {}

\* a reported VLAN with a dropped member and an island of two devices
C1_Witness ==
  /\ Returned
  /\ \E v \in ReportedVlans :
       /\ Admitted(v) # DeclaredMembers(v)
       /\ \E k \in 1..Len(IslandsOf(v)) : Cardinality(IslandsOf(v)[k].devices) >= 2

\* C2: a VLAN id is a key of the detect_islands result iff its VLAN graph has
\* more than one connected component; no key has an empty island list.
C2_ReportedIffSeveralComponents ==
  Returned =>
    /\ \A v \in VlanIds : v \in ReportedVlans <=> (v \in BuiltVlans /\ Cardinality(Components(VlanGraphOf(v))) > 1)
    /\ \A v \in ReportedVlans : Len(IslandsOf(v)) > 0

\* one VLAN is reported while another, of two connected devices, is absent
C2_Witness ==
  /\ Returned
  /\ ReportedVlans # {}
  /\ \E w \in BuiltVlans \ ReportedVlans : Len(VlanGraphOf(w).nodes) = 2

\* C3: two nodes of the VLAN graph of a reported VLAN are in the same island
\* iff a path of VLAN-graph edges joins them; links 1-2 and 3-4 with all four
\* devices in the VLAN give the islands {1, 2} and {3, 4}.
C3_IslandIsComponent ==
  Returned =>
    /\ \A v \in ReportedVlans : \A a, b \in NodeSet(VlanGraphOf(v)) :
         (\E k \in 1..Len(IslandsOf(v)) : {a, b} \subseteq IslandsOf(v)[k].devices) <=> b \in Joined(DOMAIN VlanGraphOf(v).edges, {a})
    /\ (network_data.links = <<Link(1, 2), Link(3, 4)>> /\ network_data.vlans = <<Vlan(10, <<1, 2, 3, 4>>)>>) => IslandSets(10) = {{1, 2}, {3, 4}}

\* an island of three devices, two of them joined only through the third
C3_Witness ==
  /\ Returned
  /\ \E v \in ReportedVlans : \E k \in 1..Len(IslandsOf(v)) : \E a, b \in IslandsOf(v)[k].devices :
       /\ a # b
       /\ ~has_edge(VlanGraphOf(v), a, b)

\* C4 as stated: two devices of a VLAN reported in different islands are
\* joined by no path of the physical graph at all.
C4_NoPhysicalPath ==
  Returned => \A v \in ReportedVlans : \A i, j \in 1..Len(IslandsOf(v)) : i # j =>
    \A a \in IslandsOf(v)[i].devices, b \in IslandsOf(v)[j].devices : b \notin Joined(DOMAIN physical_graph.edges, {a})

\* C4 amended: two devices of a VLAN reported in different islands are joined
\* by no path of physical links that runs through admitted members of that
\* VLAN only.
C4_NoPathThroughMembers ==
  Returned => \A v \in ReportedVlans : \A i, j \in 1..Len(IslandsOf(v)) : i # j =>
    \A a \in IslandsOf(v)[i].devices, b \in IslandsOf(v)[j].devices :
      b \notin Joined({e \in DOMAIN physical_graph.edges : e \subseteq Admitted(v)}, {a})

\* two devices in different islands that a device outside the VLAN joins
C4_Witness ==
  /\ Returned
  /\ \E v \in ReportedVlans : \E i, j \in 1..Len(IslandsOf(v)) :
       /\ i # j
       /\ \E a \in IslandsOf(v)[i].devices, b \in IslandsOf(v)[j].devices : b \in Joined(DOMAIN physical_graph.edges, {a})

\* C5: the node set of every VLAN graph is the declared members that are
\* nodes of the physical graph; a declared member that is no declared device
\* and no link endpoint is no node of the VLAN graph and no endpoint of its
\* edges; every island is a non-empty set of such admitted members.
C5_VlanGraphNodesAreAdmitted ==
  Constructed =>
    /\ BuiltVlans = DeclaredVlans
    /\ \A v \in BuiltVlans :
         /\ NodeSet(VlanGraphOf(v)) = DeclaredMembers(v) \cap NodeSet(physical_graph)
         /\ Len(VlanGraphOf(v).nodes) = Cardinality(NodeSet(VlanGraphOf(v)))
         /\ \A m \in DeclaredMembers(v) \ (DeclaredDevices \cup LinkEndpoints) :
              m \notin NodeSet(VlanGraphOf(v)) \cup UNION (DOMAIN VlanGraphOf(v).edges)
    /\ \A v \in ReportedVlans : \A k \in 1..Len(IslandsOf(v)) :
         /\ IslandsOf(v)[k].devices # {}
         /\ IslandsOf(v)[k].devices \subseteq DeclaredMembers(v) \cap NodeSet(physical_graph)

\* a reported VLAN one of whose declared members is no device and no endpoint
C5_Witness ==
  /\ Constructed
  /\ \E v \in ReportedVlans : DeclaredMembers(v) \ (DeclaredDevices \cup LinkEndpoints) # {}

\* the physical edges with both endpoints in the node set of G
InducedEdges(G) == {e \in DOMAIN physical_graph.edges : e \subseteq NodeSet(G)}

\* C6 as stated: the edges of every VLAN graph are exactly the physical edges
\* with both endpoints in its node set, self loops included, each with the
\* physical edge's attributes.
C6_InducedSubgraph ==
  Constructed => \A v \in BuiltVlans :
    /\ DOMAIN VlanGraphOf(v).edges = InducedEdges(VlanGraphOf(v))
    /\ \A e \in InducedEdges(VlanGraphOf(v)) : VlanGraphOf(v).edges[e] = physical_graph.edges[e]

\* C6 amended: the edges of every VLAN graph are exactly the physical edges
\* between two distinct nodes of its node set, each with the physical edge's
\* attributes; a physical edge from a device to itself is not in the VLAN graph.
C6_InducedSubgraphWithoutLoops ==
  Constructed => \A v \in BuiltVlans :
    /\ DOMAIN VlanGraphOf(v).edges = {e \in InducedEdges(VlanGraphOf(v)) : Cardinality(e) = 2}
    /\ \A e \in DOMAIN VlanGraphOf(v).edges : VlanGraphOf(v).edges[e] = physical_graph.edges[e]

\* a VLAN graph with an edge, one of whose nodes has a physical self loop
C6_Witness ==
  /\ Constructed
  /\ \E v \in BuiltVlans :
       /\ DOMAIN VlanGraphOf(v).edges # {}
       /\ \E n \in NodeSet(VlanGraphOf(v)) : {n} \in DOMAIN physical_graph.edges

DeclarationsOf(n) == {i \in 1..Len(network_data.devices) : network_data.devices[i]["id"] = n}

\* the last declaration of device n that gives attribute k
LastWith(n, k) == CHOOSE i \in DeclarationsOf(n) : k \in DOMAIN network_data.devices[i] /\ \A j \in DeclarationsOf(n) : (j > i => k \notin DOMAIN network_data.devices[j])

LinksNaming(e) == {i \in 1..Len(network_data.links) : {network_data.links[i]["source"], network_data.links[i]["target"]} = e}

\* C7: the nodes of the physical graph are the declared device ids and the
\* link endpoints, each once; an undeclared endpoint has an empty attribute
\* bag, a declared device has every attribute of its declarations (the last
\* declaration decides a value given twice); two nodes have an edge iff a
\* link names the pair in either orientation.
C7_PhysicalGraphBuilt ==
  Constructed =>
    /\ NodeSet(physical_graph) = DeclaredDevices \cup LinkEndpoints
    /\ Len(physical_graph.nodes) = Cardinality(NodeSet(physical_graph))
    /\ \A n \in NodeSet(physical_graph) \ DeclaredDevices : physical_graph.attrs[n] = EmptyBag
    /\ \A n \in DeclaredDevices :
         /\ DOMAIN physical_graph.attrs[n] = UNION {DOMAIN network_data.devices[i] : i \in DeclarationsOf(n)}
         /\ \A k \in DOMAIN physical_graph.attrs[n] : physical_graph.attrs[n][k] = network_data.devices[LastWith(n, k)][k]
    /\ \A a, b \in DeviceIds : has_edge(physical_graph, a, b) <=> LinksNaming({a, b}) # {}

\* a typed declared device linked, as target, to an undeclared device
C7_Witness ==
  /\ Constructed
  /\ \E a \in DeclaredDevices, b \in NodeSet(physical_graph) \ DeclaredDevices :
       /\ "type" \in DOMAIN physical_graph.attrs[a]
       /\ has_edge(physical_graph, a, b)
       /\ \E i \in 1..Len(network_data.links) : network_data.links[i]["source"] = b /\ network_data.links[i]["target"] = a

Max(S) == CHOOSE x \in S : \A y \in S : y <= x

LastLink(e) == network_data.links[Max(LinksNaming(e))]

\* C8: every edge of the physical graph carries the type and the speed of
\* the last link that names its pair (ethernet and unknown where that link
\* gives none), and there are as many edges as distinct pairs linked.
C8_LastLinkWins ==
  Constructed =>
    /\ \A e \in DOMAIN physical_graph.edges :
         /\ DOMAIN physical_graph.edges[e] = {"link_type", "speed"}
         /\ physical_graph.edges[e]["link_type"] = Get(LastLink(e), "type", "ethernet")
         /\ physical_graph.edges[e]["speed"] = Get(LastLink(e), "speed", "unknown")
    /\ Cardinality(DOMAIN physical_graph.edges) = Cardinality({{network_data.links[i]["source"], network_data.links[i]["target"]} : i \in 1..Len(network_data.links)})

\* one pair linked twice, in opposite orientations and with different attributes
C8_Witness ==
  /\ Constructed
  /\ \E i, j \in 1..Len(network_data.links) :
       /\ i < j
       /\ network_data.links[i]["source"] = network_data.links[j]["target"]
       /\ network_data.links[i]["target"] = network_data.links[j]["source"]
       /\ network_data.links[i]["source"] # network_data.links[i]["target"]
       /\ Get(network_data.links[i], "speed", "unknown") # Get(network_data.links[j], "speed", "unknown")

\* C9: in every reported VLAN the i-th island of the list has island id i.
C9_IslandIdsSequential ==
  Returned => \A v \in ReportedVlans : \A k \in 1..Len(IslandsOf(v)) : IslandsOf(v)[k].island_id = k

\* two reported VLANs, and a VLAN of three islands
C9_Witness ==
  /\ Returned
  /\ \/ Cardinality(ReportedVlans) = 2
     \/ \E v \in ReportedVlans : Len(IslandsOf(v)) = 3

\* C10: within each reported VLAN the islands are listed in ascending order
\* of their smallest member device id.
C10_IslandsOrderedByMinimum ==
  Returned => \A v \in ReportedVlans : \A i, j \in 1..Len(IslandsOf(v)) : i < j => Min(IslandsOf(v)[i].devices) < Min(IslandsOf(v)[j].devices)

\* the entries of the last report generate_island_report returned
ReportEntries == IF report = << >> THEN << >> ELSE report[1].vlans_with_islands

\* C11: in every report the VLAN entries are strictly ascending by vlan_id (no
\* id occurs twice) and the devices list of every island is strictly ascending
\* (sorted, no duplicate).
C11_ReportSorted ==
  /\ \A i, j \in 1..Len(ReportEntries) : i < j => ReportEntries[i].vlan_id < ReportEntries[j].vlan_id
  /\ \A i \in 1..Len(ReportEntries) : \A k \in 1..Len(ReportEntries[i].islands) :
       LET devices == ReportEntries[i].islands[k].devices
       IN  \A p, q \in 1..Len(devices) : p < q => devices[p] < devices[q]

\* a report of two VLANs that detection found in descending order of their ids
C11_Witness ==
  /\ Len(ReportEntries) = 2
  /\ Len(islands.keys) = 2
  /\ islands.keys[1] > islands.keys[2]

\* C12: on an unchanged detector every detect_islands call returns the result
\* of the detect_islands call before it and every generate_island_report call
\* returns the report of the report call before it, whatever calls were made
\* in between; so any two calls return equal values.
C12_Idempotent ==
  [][/\ (result # << >> /\ result' # << >>) => result' = result
     /\ (report # << >> /\ report' # << >>) => report' = report]_vars

\* detection and reporting have both returned islands: detection has run twice
C12_Witness ==
  /\ Returned
  /\ ReportedVlans # {}
  /\ Len(ReportEntries) > 0

\* C13: no detect_islands or generate_island_report call changes the physical
\* graph, a VLAN graph or the VLAN metadata; a constructed detector takes no
\* other step, so they stay as built after any sequence of such calls.
C13_GraphsUnchanged ==
  [][pc = "ready" => UNCHANGED <<physical_graph, vlan_graphs, vlan_info>>]_vars

\* detection and reporting have both run on a detector with a cabled physical
\* graph and a VLAN graph that has an edge and islands
C13_Witness ==
  /\ Returned
  /\ report # << >>
  /\ DOMAIN physical_graph.edges # {}
  /\ \E v \in ReportedVlans : DOMAIN VlanGraphOf(v).edges # {}

\* C14: a detect_islands or generate_island_report call changes no attribute of
\* the detector: neither the graphs, the metadata nor the islands collection
\* the instance holds.
C14_NoDetectorStateChanged ==
  [][pc = "ready" => UNCHANGED <<physical_graph, vlan_graphs, vlan_info, islands>>]_vars

\* C15: a report has one entry for each VLAN the detector holds islands of and
\* no other entry; in each entry number_of_islands is the length of the islands
\* list and at least 2, vlan_name is the name stored in vlan_info, and the
\* islands carry the ids and the device sets of the detector's islands.
C15_ReportMatchesDetection ==
  report # << >> =>
    /\ Len(ReportEntries) = Len(islands.keys)
    /\ {ReportEntries[i].vlan_id : i \in 1..Len(ReportEntries)} = Range(islands.keys)
    /\ \A i \in 1..Len(ReportEntries) :
         LET entry == ReportEntries[i]
             detected == islands.val[entry.vlan_id]
         IN  /\ entry.number_of_islands = Len(entry.islands)
             /\ entry.number_of_islands >= 2
             /\ entry.vlan_name = vlan_info.val[entry.vlan_id].name
             /\ Len(entry.islands) = Len(detected)
             /\ \A k \in 1..Len(detected) :
                  /\ entry.islands[k].island_id = detected[k].island_id
                  /\ Range(entry.islands[k].devices) = detected[k].devices
                  /\ Len(entry.islands[k].devices) = Cardinality(detected[k].devices)

\* a reported VLAN of three islands, one of them of two devices
C15_Witness ==
  \E i \in 1..Len(ReportEntries) :
    /\ ReportEntries[i].number_of_islands = 3
    /\ \E k \in 1..3 : Len(ReportEntries[i].islands[k].devices) = 2

\* the members of VLAN v that are nodes of the physical graph as it is now
CurrentMembers(v) == vlan_info.val[v].devices \cap NodeSet(physical_graph)

\* the islands of VLAN v in the physical graph as it is now
CurrentIslands(v) == {Joined({e \in DOMAIN physical_graph.edges : e \subseteq CurrentMembers(v)}, {n}) : n \in CurrentMembers(v)}

\* the last report is the report of the topology as it is now
ReportReflectsTopology ==
  /\ {ReportEntries[i].vlan_id : i \in 1..Len(ReportEntries)} = {v \in BuiltVlans : Cardinality(CurrentIslands(v)) > 1}
  /\ \A i \in 1..Len(ReportEntries) :
       {Range(ReportEntries[i].islands[k].devices) : k \in 1..Len(ReportEntries[i].islands)} = CurrentIslands(ReportEntries[i].vlan_id)

\* C16: every report that generate_island_report returns is the report of the
\* topology as it is at the call, also after an edge or a node was added to or
\* removed from the physical graph: no report is stale.
C16_ReportNeverStale ==
  [][report' # report => ReportReflectsTopology']_vars

\* C17: the constructor raises FileNotFoundError for a file that does not exist
\* and ValueError for a file that is not JSON; the caller gets the error and no
\* detector: nothing is built and no detection or report is ever returned.
C17_LoadFailurePropagates ==
  pc # "new" =>
    /\ network_file = "missing" => (pc = "failed" /\ error = "FileNotFoundError")
    /\ network_file = "invalid_json" => (pc = "failed" /\ error = "ValueError")
    /\ pc = "failed" =>
         /\ error # "none"
         /\ physical_graph = EmptyGraph /\ vlan_graphs = EmptyDict /\ vlan_info = EmptyDict /\ islands = EmptyDict
         /\ result = << >> /\ report = << >>

\* the constructor has raised on a file that is not JSON
C17_Witness ==
  /\ network_file = "invalid_json"
  /\ pc = "failed"
  /\ error = "ValueError"

\* C18: for a file with a link entry that lacks its source or its target the
\* constructor raises ValueError, the error of a file that is not JSON; it
\* builds no detector from the other links.
C18_MalformedLinkIsFormatError ==
  (/\ pc # "new"
   /\ network_file = "valid"
   /\ \E i \in 1..Len(network_data.links) : {"source", "target"} \ DOMAIN network_data.links[i] # {})
  => (pc = "failed" /\ error = "ValueError")

\* C19: on a detector that the constructor returned, no detect_islands and no
\* generate_island_report call raises an error.
C19_CallsCannotFail ==
  pc = "ready" => error = "none"

\* C20: vlan_info holds, for every declared VLAN, the member set as its record
\* declares it, members that are not nodes of the physical graph included
\* (they are no nodes of the VLAN graph), and the name and the description of
\* the record ('' when the record gives none).
C20_MetadataAsDeclared ==
  Constructed =>
    /\ DOMAIN vlan_info.val = DeclaredVlans
    /\ \A v \in DeclaredVlans :
         /\ vlan_info.val[v].devices = DeclaredMembers(v)
         /\ vlan_info.val[v].name = LastRecord(v)["name"]
         /\ vlan_info.val[v].description = Get(LastRecord(v), "description", "")
         /\ \A m \in DeclaredMembers(v) \ NodeSet(physical_graph) :
              m \in vlan_info.val[v].devices /\ m \notin NodeSet(VlanGraphOf(v))

\* a VLAN declared with a description and with a member that is no node of the
\* physical graph
C20_Witness ==
  /\ Constructed
  /\ \E v \in DeclaredVlans :
       /\ vlan_info.val[v].description # ""
       /\ vlan_info.val[v].devices \ NodeSet(physical_graph) # {}

\* C21: the islands of a VLAN are those of the physical graph and the VLAN's
\* own declared members; a detection over that VLAN alone returns the islands
\* the pass over all VLANs returned for it, and a pass that takes the VLANs in
\* any other order returns the same islands for every VLAN.
C21_VlanIndependent ==
  Returned =>
    /\ \A v \in ReportedVlans : IslandSets(v) = CurrentIslands(v)
    /\ \A v \in BuiltVlans :
         LET alone == detect_from(EmptyDict, [keys |-> <<v>>, val |-> vlan_graphs.val], vlan_info, 1)
         IN  IF v \in ReportedVlans
             THEN alone.keys = <<v>> /\ alone.val[v] = IslandsOf(v)
             ELSE alone = EmptyDict
    /\ \A order \in SetOrders(BuiltVlans) :
         detect_from(EmptyDict, [keys |-> order, val |-> vlan_graphs.val], vlan_info, 1).val = Reported.val

\* islands were returned for two VLANs of different names that share a device
C21_Witness ==
  /\ Returned
  /\ Cardinality(ReportedVlans) = 2
  /\ \E v, w \in ReportedVlans : v # w /\ vlan_info.val[v].name # vlan_info.val[w].name /\ DeclaredMembers(v) \cap DeclaredMembers(w) # {}

\* C22: the conversation history never holds more than 20 messages, and once
\* 13 chat calls have succeeded it holds exactly 20.
C22_HistoryAtMostTwenty ==
  /\ Len(conversation_history) <= HistoryLimit
  /\ Len(exchanges) >= 2 * 13 => Len(conversation_history) = HistoryLimit

\* 13 chat calls have succeeded
C22_Witness ==
  /\ calls = 13
  /\ Len(exchanges) = 2 * 13
  /\ Len(conversation_history) = HistoryLimit

\* C23: a chat call that succeeds returns the reply of the service and leaves
\* the history as the history before the call, then the user message with role
\* user, then the reply with role assistant (cut to its last 20 messages); the
\* request it sent was the system prompt, the history before the call and the
\* user message.
C23_SuccessfulChat ==
  [][exchanges' # exchanges =>
       LET user_message == exchanges'[Len(exchanges') - 1]
           reply == exchanges'[Len(exchanges')]
           appended == conversation_history \o <<user_message, reply>>
           kept == Len(conversation_history')
       IN  /\ user_message.role = "user" /\ reply.role = "assistant"
           /\ returned' = <<reply.content>>
           /\ kept = Len(appended) \/ kept = HistoryLimit
           /\ conversation_history' = SubSeq(appended, Len(appended) - kept + 1, Len(appended))
           /\ conversation_history'[kept - 1] = user_message /\ conversation_history'[kept] = reply
           /\ sent' = <<Message("system", build_system_prompt(build_network_context(generate_island_report(islands', vlan_info))))>> \o conversation_history \o <<user_message>>]_vars

\* a call has succeeded on a history that held messages already
C23_Witness ==
  /\ returned # << >>
  /\ Len(conversation_history) >= 4
  /\ returned[1] = conversation_history[Len(conversation_history)].content
  /\ sent[Len(sent)] = conversation_history[Len(conversation_history) - 1]

\* C24: a chat call whose request to the service raises does not raise: it
\* returns the apology text with the error message in it, and the
\* conversation history is as it was before the call.
C24_ServiceErrorIsCaught ==
  [][(calls' # calls /\ sent' # sent /\ exchanges' = exchanges) =>
       /\ error' = "none"
       /\ returned' = <<"I apologize, but I encountered an error: API Error. Please try rephrasing your question.">>
       /\ conversation_history' = conversation_history]_vars

\* the service has raised on a request that carried a history; the user
\* message of the request is not in the history
C24_Witness ==
  /\ returned = <<"I apologize, but I encountered an error: API Error. Please try rephrasing your question.">>
  /\ Len(conversation_history) >= 2
  /\ Len(sent) = Len(conversation_history) + 2
  /\ sent[Len(sent)] \notin Range(conversation_history)

\* the environment variable has a value the constructor takes
Usable(name) == str_getenv(environ, name) \notin {"", "None"}

C26_HistoryIsRecentExchanges ==
  /\ Len(conversation_history) % 2 = 0
  /\ \A i \in 1..Len(conversation_history) : conversation_history[i].role = (IF i % 2 = 1 THEN "user" ELSE "assistant")
  /\ Len(conversation_history) = (IF Len(exchanges) > HistoryLimit THEN HistoryLimit ELSE Len(exchanges))
  /\ conversation_history = SubSeq(exchanges, Len(exchanges) - Len(conversation_history) + 1, Len(exchanges))

\* more than ten exchanges have succeeded and some call has failed
C26_Witness ==
  /\ Len(exchanges) > HistoryLimit
  /\ 2 * calls > Len(exchanges)
  /\ Len(conversation_history) = HistoryLimit

\* C27: a detect_islands call leaves its result as the detector's stored
\* islands; a later generate_island_report call does not alter the result the
\* caller holds (keys, island lists, device sets) and leaves as stored islands
\* the islands of its own detection, which are those of the held result.
C27_HeldResultKept ==
  [][/\ DetectIslands => islands' = result'[1]
     /\ (GenerateIslandReport /\ Returned) => (result' = result /\ islands' = result[1])]_vars

\* a report was generated after detect_islands had returned islands
C27_Witness ==
  /\ Returned
  /\ ReportedVlans # {}
  /\ report # << >>
  /\ islands = result[1]
  /\ \E v \in ReportedVlans : \E k \in 1..Len(IslandsOf(v)) : Cardinality(IslandsOf(v)[k].devices) > 1

\* the typed lines that say exit, quit or bye, in any case and with blanks around
EndingLines == {<<"e", "x", "i", "t">>, <<" ", "E", "x", "i", "t", " ">>, <<"Q", "U", "I", "T">>, <<"b", "y", "e", "\t">>}

\* the typed lines that say help, clear or report, and the lines of blanks only
SilentLines == {<<"h", "e", "l", "p">>, <<" ", "H", "E", "L", "P">>, <<"c", "l", "e", "a", "r">>, <<"R", "e", "p", "o", "r", "t">>, << >>, <<" ", " ">>}

\* C28: an iteration of the console loop ends the loop exactly when the line
\* says exit, quit or bye or input() was interrupted; a line that says help,
\* report or clear and an empty line call chat not at all, every other line
\* calls it once; an exception of the iteration is printed and the loop is at
\* its prompt again.
C28_ConsoleLoop ==
  [][turns' # turns =>
       /\ console_pc' = "ended" <=> typed' \in EndingLines \cup {KeyboardInterrupt}
       /\ typed' \in SilentLines => (chatted' = 0 /\ calls' = calls /\ conversation_history' = conversation_history)
       /\ typed' \in Lines \ (SilentLines \cup EndingLines) => (chatted' = 1 /\ calls' = calls + 1 /\ user_input' = strip(typed'))
       /\ typed' \notin Lines \ (SilentLines \cup EndingLines) => (chatted' = 0 /\ calls' = calls)
       /\ error' \notin {"none", "KeyboardInterrupt"} => (printed' = "error" /\ console_pc' = "prompt")]_vars

\* a question was put to chat, chat raised, and the loop is at its prompt again
C28_Witness ==
  /\ typed \in Lines \ (SilentLines \cup EndingLines)
  /\ chatted = 1
  /\ error = "TypeError"
  /\ printed = "error"
  /\ console_pc = "prompt"
  /\ turns >= 2
====
